---- MODULE Spec2Model ----
(***************************************************************************)
(* Secure terminal control plane of eDEX-UI (hardened fork).               *)
(*                                                                         *)
(*  - the preload bridge of src/src/_preload.js: the channel whitelist,    *)
(*    isChannelAllowed and the secureAPI operations send, invoke, on,      *)
(*    once, getVersion, getCwd, getEnv, over Electron's ipcRenderer;       *)
(*  - the terminal WebSocket gateway of src/SECURITY_FIXES.md: the         *)
(*    verifyClient accept policy (Fix #1) and the token handshake of the   *)
(*    'connection' handler (recommendation 3).                             *)
(***************************************************************************)
EXTENDS Integers, Sequences, FiniteSets, TLC

VARIABLES
    listeners,   \* ipcRenderer's registered listeners, in registration order
    nextId,      \* number of listener functions created so far by on/once
    handles,     \* ids whose unsubscribe closure was returned by on
    cancelled,   \* ids whose unsubscribe closure has been invoked
    invoked,     \* id -> number of times the renderer callback has run
    deliveries,  \* number of messages the main process has emitted so far
    lastDelivered, \* the channel of the most recent of them
    backend,     \* messages the main process has received, in order
    lastCall,    \* the most recent secureAPI call and how it ended
    registry,    \* the own keys of the ALLOWED_CHANNELS object
    checked,     \* the most recent direct isChannelAllowed call and its result
    wsAuthToken, \* the token generated when the terminal server starts
    conns,       \* the accept attempts made so far, each with its socket
    clients,     \* wss.clients: the sockets the server tracks
    lastAttempt  \* the most recent verifyClient call and its verdict

bridgeVars == <<listeners, nextId, handles, cancelled, invoked, deliveries, lastDelivered,
                backend, lastCall, registry, checked>>

gatewayVars == <<wsAuthToken, conns, clients, lastAttempt>>

vars == <<listeners, nextId, handles, cancelled, invoked, deliveries, lastDelivered,
          backend, lastCall, registry, checked, wsAuthToken, conns, clients,
          lastAttempt>>

-----------------------------------------------------------------------------
(* Bounds of the model.                                                    *)

MaxCalls == 2      \* secureAPI calls that pass the whitelist, over a run
MaxDeliver == 2    \* messages emitted by the main process
MaxEvents == 3     \* connection attempts plus client messages, over a run

-----------------------------------------------------------------------------
(* The channel whitelist, _preload.js 19-53.                               *)

\* The own keys of the ALLOWED_CHANNELS object literal; each maps to true.
\* The variable registry holds the own keys of the object as the program
\* runs; it starts as this set.
ALLOWED_CHANNELS ==
    { "terminal:execute", "terminal:resize", "terminal:kill",
      "terminal:data", "terminal:exit",
      "file:read", "file:write", "file:delete", "file:list", "file:stats",
      "system:info", "system:cwd", "system:env",
      "websocket:connect", "websocket:disconnect", "websocket:send",
      "websocket:message" }

\* ALLOWED_CHANNELS is a plain object literal, so a lookup that misses the
\* own keys continues on Object.prototype.
ObjectPrototypeKeys ==
    { "constructor", "toString", "valueOf", "hasOwnProperty",
      "isPrototypeOf", "propertyIsEnumerable", "toLocaleString", "__proto__" }

\* The value of the expression ALLOWED_CHANNELS[channel], by its JS type:
\* "true" for an own key, a function or object for an inherited one, and
\* undefined otherwise.
PropertyGet(channel) ==
    IF channel \in registry THEN "true"
    ELSE IF channel = "__proto__" THEN "object"
    ELSE IF channel \in ObjectPrototypeKeys THEN "function"
    ELSE "undefined"

\* A truthy membership test, if (ALLOWED_CHANNELS[channel]), in place of
\* the strict comparison with true.
isChannelAllowedTruthy(channel) == PropertyGet(channel) # "undefined"

\* return ALLOWED_CHANNELS[channel] === true; channel is the property key
\* of the lookup.
isChannelAllowed(channel) == PropertyGet(channel) = "true"

\* JavaScript values a caller can pass as the channel argument, by type:
\* text for a string, num for a number, flag for a boolean, items for the
\* elements of an array of strings.
JsValue(type, text, num, flag, items) ==
    [type |-> type, text |-> text, num |-> num, flag |-> flag, items |-> items]
StringValue(s) == JsValue("string", s, 0, FALSE, <<>>)
NumberValue(n) == JsValue("number", "", n, FALSE, <<>>)
BooleanValue(b) == JsValue("boolean", "", 0, b, <<>>)
UndefinedValue == JsValue("undefined", "", 0, FALSE, <<>>)
NullValue == JsValue("null", "", 0, FALSE, <<>>)
ArrayValue(items) == JsValue("array", "", 0, FALSE, items)
ObjectValue == JsValue("object", "", 0, FALSE, <<>>)

RECURSIVE Join(_)
\* Array.prototype.join with the default separator, for an array of strings.
Join(items) ==
    IF Len(items) = 0 THEN ""
    ELSE IF Len(items) = 1 THEN items[1]
    ELSE items[1] \o "," \o Join(Tail(items))

\* The property key the member access ALLOWED_CHANNELS[channel] looks up:
\* a string is its own key, and every other value is converted with
\* ToString (an array through Array.prototype.toString, which joins its
\* elements; a plain object through Object.prototype.toString).
ToPropertyKey(v) ==
    CASE v.type = "string" -> v.text
      [] v.type = "number" -> ToString(v.num)
      [] v.type = "boolean" -> (IF v.flag THEN "true" ELSE "false")
      [] v.type = "undefined" -> "undefined"
      [] v.type = "null" -> "null"
      [] v.type = "array" -> Join(v.items)
      [] v.type = "object" -> "[object Object]"

-----------------------------------------------------------------------------
(* Inputs of the bridge operations.                                        *)

\* Channel names the renderer passes: registered ones and unregistered ones
\* (a channel the main process does serve, names every object inherits, the
\* empty string, an unknown name).
ChannelInputs ==
    { "terminal:data", "system:cwd",
      "app:get-version", "constructor", "__proto__", "", "terminal:evil" }

\* Channels the main process emits messages on.
DeliverChannels == { "terminal:data", "system:cwd", "terminal:evil" }

\* Renderer callbacks, by identity.
Callbacks == { "cbA", "cbB" }

NoArg == "<none>"

Call(op, channel, outcome, diag) ==
    [op |-> op, channel |-> channel, outcome |-> outcome, diag |-> diag]

\* What a rejected call does, in program order: the console.error record,
\* which names the channel, and then the throw.
Effect(kind, channel) == [kind |-> kind, channel |-> channel]

\* A rejection that also records the refused name as a key of the object.
BlockedRegistering(op, channel, outcome) ==
    /\ lastCall' = Call(op, channel, outcome,
                        << Effect("console.error", channel),
                           Effect("throw", channel) >>)
    /\ registry' = registry \cup {channel}
    /\ UNCHANGED <<listeners, nextId, handles, cancelled, invoked,
                   deliveries, lastDelivered, backend>>

\* A rejection that throws without writing the console.error record.
BlockedSilent(op, channel, outcome) ==
    /\ lastCall' = Call(op, channel, outcome, << Effect("throw", channel) >>)
    /\ UNCHANGED registry
    /\ UNCHANGED <<listeners, nextId, handles, cancelled, invoked,
                   deliveries, lastDelivered, backend>>

\* console.error(`[SECURITY] Blocked IPC ... channel: ${channel}`) followed
\* by throw new Error(...): the rejected call's record. No branch of
\* secureAPI assigns to or deletes from ALLOWED_CHANNELS.
Blocked(op, channel, outcome) ==
    /\ lastCall' = Call(op, channel, outcome,
                        << Effect("console.error", channel),
                           Effect("throw", channel) >>)
    /\ UNCHANGED registry
    /\ UNCHANGED <<listeners, nextId, handles, cancelled, invoked,
                   deliveries, lastDelivered, backend>>

Msg(channel, method, reply) ==
    [channel |-> channel, method |-> method, reply |-> reply]

\* The calls that passed the whitelist so far: each registered a listener or
\* sent a message.
Accepted == nextId + Len(backend)

\* Values passed to isChannelAllowed directly: strings (registered names,
\* names every object inherits, the empty string, unknown names), numbers,
\* booleans, undefined, null, a plain object, and arrays of up to two strings.
CheckStrings ==
    ALLOWED_CHANNELS \cup ObjectPrototypeKeys
    \cup { "", "terminal:evil", "app:get-version", "true", "0", "undefined",
           "file:read,file:write", "[object Object]",
           "FILE:READ", " file:read", "file:read " }
ArrayElements == { "file:read", "system:env", "constructor", "", "terminal:evil" }
CheckInputs ==
    { StringValue(s) : s \in CheckStrings }
    \cup { NumberValue(n) : n \in {0, 1, 17} }
    \cup { BooleanValue(b) : b \in BOOLEAN }
    \cup { UndefinedValue, NullValue, ObjectValue, ArrayValue(<<>>) }
    \cup { ArrayValue(<<s>>) : s \in CheckStrings }
    \cup { ArrayValue(<<s, t>>) : s \in ArrayElements, t \in ArrayElements }

\* No direct call of isChannelAllowed was made yet.
NotChecked == [called |-> FALSE, input |-> UndefinedValue, result |-> FALSE]

\* A call isChannelAllowed(v): the one statement of the function, a return
\* of the comparison; nothing is assigned.
CheckChannel(v) ==
    /\ checked' = [called |-> TRUE, input |-> v,
                   result |-> isChannelAllowed(ToPropertyKey(v))]
    /\ UNCHANGED <<listeners, nextId, handles, cancelled, invoked, deliveries,
                   lastDelivered, backend, lastCall, registry>>
    /\ UNCHANGED gatewayVars

-----------------------------------------------------------------------------
(* secureAPI, _preload.js 59-145.                                          *)

\* send: (channel, ...args) => { check; ipcRenderer.send(channel, ...args) }
Send(channel) ==
    /\ UNCHANGED gatewayVars
    /\ UNCHANGED checked
    /\ IF ~isChannelAllowed(channel)
       THEN Blocked("send", channel, "threw")
       ELSE /\ Accepted < MaxCalls
            /\ backend' = Append(backend, Msg(channel, "send", "none"))
            /\ lastCall' = Call("send", channel, "returned", <<>>)
            /\ UNCHANGED <<listeners, nextId, handles, cancelled, invoked,
                           deliveries, lastDelivered, registry>>

\* An invoke that is not declared async: its check throws to the caller.
InvokeNotAsync(channel) ==
    /\ UNCHANGED gatewayVars
    /\ UNCHANGED checked
    /\ IF ~isChannelAllowed(channel)
       THEN Blocked("invoke", channel, "threw")
       ELSE /\ Accepted < MaxCalls
            /\ backend' = Append(backend, Msg(channel, "invoke", "pending"))
            /\ lastCall' = Call("invoke", channel, "pending", <<>>)
            /\ UNCHANGED <<listeners, nextId, handles, cancelled, invoked,
                           deliveries, lastDelivered, registry>>

\* invoke: async (channel, ...args) => { check; return await
\* ipcRenderer.invoke(channel, ...args) }. A throw inside an async function
\* rejects the promise it returns.
Invoke(channel) ==
    /\ UNCHANGED gatewayVars
    /\ UNCHANGED checked
    /\ IF ~isChannelAllowed(channel)
       THEN Blocked("invoke", channel, "rejected")
       ELSE /\ Accepted < MaxCalls
            /\ backend' = Append(backend, Msg(channel, "invoke", "pending"))
            /\ lastCall' = Call("invoke", channel, "pending", <<>>)
            /\ UNCHANGED <<listeners, nextId, handles, cancelled, invoked,
                           deliveries, lastDelivered, registry>>

\* The main process settles a pending invoke: ipcMain's handler returns or
\* throws, and the awaiting promise resolves or rejects.
Reply(i, result) ==
    /\ i \in 1..Len(backend)
    /\ backend[i].reply = "pending"
    /\ backend' = [backend EXCEPT ![i].reply = result]
    /\ UNCHANGED <<listeners, nextId, handles, cancelled, invoked,
                   deliveries, lastDelivered, lastCall, registry, checked>>
    /\ UNCHANGED gatewayVars

Listener(id, channel, callback, once) ==
    [id |-> id, channel |-> channel, callback |-> callback, once |-> once]

\* on: check; wrappedCallback is a fresh closure; ipcRenderer.on(channel,
\* wrappedCallback); the returned closure is the unsubscribe handle.
On(channel, callback) ==
    /\ UNCHANGED gatewayVars
    /\ UNCHANGED checked
    /\ IF ~isChannelAllowed(channel)
       THEN Blocked("on", channel, "threw")
       ELSE /\ Accepted < MaxCalls
            /\ nextId' = nextId + 1
            /\ listeners' = Append(listeners,
                                   Listener(nextId + 1, channel, callback, FALSE))
            /\ handles' = handles \cup {nextId + 1}
            /\ lastCall' = Call("on", channel, "returned", <<>>)
            /\ UNCHANGED <<cancelled, invoked, deliveries, lastDelivered, backend,
                           registry>>

\* once: check; ipcRenderer.once(channel, (event, ...args) => callback(...args))
\* with a fresh arrow function; nothing is returned.
Once(channel, callback) ==
    /\ UNCHANGED gatewayVars
    /\ UNCHANGED checked
    /\ IF ~isChannelAllowed(channel)
       THEN Blocked("once", channel, "threw")
       ELSE /\ Accepted < MaxCalls
            /\ nextId' = nextId + 1
            /\ listeners' = Append(listeners,
                                   Listener(nextId + 1, channel, callback, TRUE))
            /\ lastCall' = Call("once", channel, "returned", <<>>)
            /\ UNCHANGED <<handles, cancelled, invoked, deliveries, lastDelivered,
                           backend, registry>>

RECURSIVE SelectIdx(_, _, _)
\* Indices of ls, in order, that are not the index drop.
SelectIdx(ls, i, drop) ==
    IF i > Len(ls) THEN <<>>
    ELSE IF i = drop THEN SelectIdx(ls, i + 1, drop)
    ELSE <<ls[i]>> \o SelectIdx(ls, i + 1, drop)

\* removeListener(channel, fn) on every registration of the same renderer
\* callback on the channel, instead of on the wrapper this call created.
RemoveListenerByCallback(ls, id) ==
    LET own == { i \in 1..Len(ls) : ls[i].id = id }
    IN  IF own = {} THEN ls
        ELSE LET me == ls[CHOOSE i \in own : TRUE]
             IN  SelectSeq(ls, LAMBDA l : ~(l.channel = me.channel
                                            /\ l.callback = me.callback))

\* ipcRenderer.removeListener(channel, wrappedCallback): EventEmitter removes
\* the most recently added registration of that function on the channel, and
\* nothing when there is none.
RemoveListener(ls, id) ==
    LET hits == { i \in 1..Len(ls) : ls[i].id = id }
    IN  IF hits = {} THEN ls
        ELSE SelectIdx(ls, 1, CHOOSE i \in hits : \A j \in hits : j <= i)

\* The closure returned by on: () => ipcRenderer.removeListener(channel,
\* wrappedCallback). The renderer may invoke it any number of times.
Unsubscribe(h) ==
    /\ h \in handles
    /\ listeners' = RemoveListener(listeners, h)
    /\ cancelled' = cancelled \cup {h}
    /\ UNCHANGED <<nextId, handles, invoked, deliveries, lastDelivered, backend,
                   lastCall, registry, checked>>
    /\ UNCHANGED gatewayVars

\* A once registration that stays registered after its delivery.
EmitKeepAll(ls, channel) == ls

\* The listeners left after emit(channel): a once registration is removed
\* before its function runs.
EmitKeep(ls, channel) ==
    SelectSeq(ls, LAMBDA l : ~(l.channel = channel /\ l.once))

\* The main process sends a message on a channel (webContents.send): the
\* EventEmitter calls every function registered on that channel, and each
\* wrapper calls its renderer callback.
Deliver(channel) ==
    /\ deliveries < MaxDeliver
    /\ deliveries' = deliveries + 1
    /\ lastDelivered' = channel
    /\ invoked' = [id \in DOMAIN invoked |->
                     IF \E i \in 1..Len(listeners) :
                           listeners[i].id = id /\ listeners[i].channel = channel
                     THEN invoked[id] + 1 ELSE invoked[id]]
    /\ listeners' = EmitKeep(listeners, channel)
    /\ UNCHANGED <<nextId, handles, cancelled, backend, lastCall, registry, checked>>
    /\ UNCHANGED gatewayVars

\* getVersion: () => ipcRenderer.sendSync('app:get-version')
GetVersion ==
    /\ Accepted < MaxCalls
    /\ backend' = Append(backend, Msg("app:get-version", "sendSync", "resolved"))
    /\ lastCall' = Call("getVersion", NoArg, "returned", <<>>)
    /\ UNCHANGED <<listeners, nextId, handles, cancelled, invoked, deliveries,
                   lastDelivered, registry, checked>>
    /\ UNCHANGED gatewayVars

\* getCwd: async () => await ipcRenderer.invoke('system:cwd')
GetCwd ==
    /\ Accepted < MaxCalls
    /\ backend' = Append(backend, Msg("system:cwd", "invoke", "pending"))
    /\ lastCall' = Call("getCwd", NoArg, "pending", <<>>)
    /\ UNCHANGED <<listeners, nextId, handles, cancelled, invoked, deliveries,
                   lastDelivered, registry, checked>>
    /\ UNCHANGED gatewayVars

\* getEnv: async () => await ipcRenderer.invoke('system:env')
GetEnv ==
    /\ Accepted < MaxCalls
    /\ backend' = Append(backend, Msg("system:env", "invoke", "pending"))
    /\ lastCall' = Call("getEnv", NoArg, "pending", <<>>)
    /\ UNCHANGED <<listeners, nextId, handles, cancelled, invoked, deliveries,
                   lastDelivered, registry, checked>>
    /\ UNCHANGED gatewayVars

-----------------------------------------------------------------------------
(* JavaScript values the gateway code tests.                               *)

\* The value undefined: a header that is absent, a property that does not
\* exist.
JsUndefined == "<undefined>"

\* ToBoolean of a string-or-undefined value: undefined and '' are falsy.
Truthy(v) == v # JsUndefined /\ v # ""

\* String.prototype.startsWith
startsWith(s, prefix) ==
    /\ Len(s) >= Len(prefix)
    /\ SubSeq(s, 1, Len(prefix)) = prefix

\* A property read that yields a number, or undefined.
JsNumber(n) == [type |-> "number", value |-> n]
JsNoValue == [type |-> "undefined", value |-> 0]

\* x >= n for a number n: ToNumber(undefined) is NaN, and every comparison
\* with NaN is false.
JsGreaterEq(x, n) == IF x.type = "number" THEN x.value >= n ELSE FALSE

-----------------------------------------------------------------------------
(* verifyClient, SECURITY_FIXES.md 45-92.                                  *)

\* port: this.port; the port the test page of the document connects to.
Port == 3000

\* `...${this.port}`
PortText == ToString(Port)

allowedOrigins ==
    << "http://localhost",
       "http://127.0.0.1",
       "https://localhost",
       "https://127.0.0.1",
       "http://localhost:" \o PortText,
       "http://127.0.0.1:" \o PortText,
       "https://localhost:" \o PortText,
       "https://127.0.0.1:" \o PortText,
       "file://",
       "app://" >>

\* A count of every connection accepted since the server started, closed
\* ones included.
clientsLengthEverAccepted(cl) ==
    JsNumber(Cardinality({ i \in 1..Len(conns) : conns[i].accepted }))

\* this.wss.clients.length: with clientTracking the ws server keeps its
\* clients in a Set (ws 3 and later; the document asks for ws 8.x), which
\* has a size and no length property.
clientsLength(cl) == JsNoValue

\* allowedOrigins.some(allowedOrigin => origin.startsWith(allowedOrigin))
originAllowed(origin) ==
    \E k \in 1..Len(allowedOrigins) : startsWith(origin, allowedOrigins[k])

\* const host = info.req.headers.host;
\* host && (host.startsWith('localhost') || host.startsWith('127.0.0.1'))
hostIsLocal(host) ==
    /\ Truthy(host)
    /\ (startsWith(host, "localhost") \/ startsWith(host, "127.0.0.1"))

\* verifyClient: info => { ... }, with origin the value of
\* info.origin || info.req.headers.origin and host the Host header.
verifyClient(origin, host, cl) ==
    IF JsGreaterEq(clientsLength(cl), 1) THEN FALSE
    ELSE IF ~Truthy(origin) THEN hostIsLocal(host)
    ELSE originAllowed(origin)

-----------------------------------------------------------------------------
(* The token handshake, SECURITY_FIXES.md 180-208.                         *)

\* this.wsAuthToken = crypto.randomBytes(32).toString('hex'): the value
\* drawn at this start, and the tokens a client may present.
GeneratedToken == "9f2c"
Tokens == { GeneratedToken, "51ab" }

\* ws.close(4401, 'Authentication timeout')
CloseAuthTimeout == 4401
\* ws.close(4403, 'Invalid auth token')
CloseInvalidToken == 4403
\* ws.close(4400, 'Invalid message format')
CloseBadFormat == 4400

\* Frames a client may send first or later: text that is not JSON, the JSON
\* value null, an object without an authToken, an object with one.
TokenMessage(t) == "{\"authToken\":\"" \o t \o "\"}"
Messages == { "{authToken", "null", "{}" } \cup { TokenMessage(t) : t \in Tokens }

\* JSON.parse(message): throws on text that is not JSON, and otherwise
\* yields the value.
JSONParse(message) ==
    IF message = "null" THEN [ok |-> TRUE, kind |-> "null", authToken |-> JsUndefined]
    ELSE IF message = "{}" THEN [ok |-> TRUE, kind |-> "object", authToken |-> JsUndefined]
    ELSE IF \E t \in Tokens : message = TokenMessage(t)
    THEN [ok |-> TRUE, kind |-> "object",
          authToken |-> CHOOSE t \in Tokens : message = TokenMessage(t)]
    ELSE [ok |-> FALSE, kind |-> "none", authToken |-> JsUndefined]

\* A refused attempt for which the 'connection' handler ran all the same.
RefusedWithHandler ==
    [accepted |-> FALSE, readyState |-> "CLOSED", authenticated |-> FALSE,
     authTimeout |-> "armed", onceMessage |-> TRUE, msgs |-> <<>>,
     closeCalls |-> <<>>, closeCode |-> 0]

\* A socket of an attempt verifyClient refused: the upgrade is aborted and
\* no 'connection' event is emitted for it.
Refused ==
    [accepted |-> FALSE, readyState |-> "CLOSED", authenticated |-> FALSE,
     authTimeout |-> "none", onceMessage |-> FALSE, msgs |-> <<>>,
     closeCalls |-> <<>>, closeCode |-> 0]

\* A 'connection' handler that registers the listener and starts no timer.
ConnectedNoTimer ==
    [accepted |-> TRUE, readyState |-> "OPEN", authenticated |-> FALSE,
     authTimeout |-> "none", onceMessage |-> TRUE, msgs |-> <<>>,
     closeCalls |-> <<>>, closeCode |-> 0]

\* The state the 'connection' handler leaves a new socket in:
\* let authenticated = false; authTimeout = setTimeout(..., 5000);
\* ws.once('message', ...).
Connected ==
    [accepted |-> TRUE, readyState |-> "OPEN", authenticated |-> FALSE,
     authTimeout |-> "armed", onceMessage |-> TRUE, msgs |-> <<>>,
     closeCalls |-> <<>>, closeCode |-> 0]

\* ws.close(code, reason) of the ws library: an open socket starts its
\* closing handshake with that code; a socket already closing or closed is
\* left as it is.
WsClose(c, code) ==
    IF c.readyState = "OPEN"
    THEN [c EXCEPT !.readyState = "CLOSING", !.closeCode = code,
                   !.closeCalls = Append(@, code)]
    ELSE [c EXCEPT !.closeCalls = Append(@, code)]

\* Whether a connection is open: accepted, and neither closed nor closing.
Occupied == \E i \in 1..Len(conns) : conns[i].readyState = "OPEN"

RECURSIVE MsgCount(_, _)
\* The messages delivered on the first n sockets of cs.
MsgCount(cs, n) == IF n = 0 THEN 0 ELSE Len(cs[n].msgs) + MsgCount(cs, n - 1)

\* Connection attempts and client messages so far.
Events == Len(conns) + MsgCount(conns, Len(conns))

\* A client attempts to connect: the ws server calls verifyClient and, on
\* true, completes the upgrade, adds the socket to wss.clients and emits
\* 'connection', all in one turn of the event loop.
Connect(origin, host) ==
    /\ Events < MaxEvents
    /\ LET ok == verifyClient(origin, host, clients)
       IN  /\ lastAttempt' = [origin |-> origin, host |-> host,
                              occupied |-> Occupied, accepted |-> ok]
           /\ conns' = Append(conns, IF ok THEN Connected ELSE Refused)
           /\ clients' = IF ok THEN clients \cup {Len(conns) + 1} ELSE clients
    /\ UNCHANGED wsAuthToken
    /\ UNCHANGED bridgeVars

\* The callback of setTimeout(..., 5000):
\* if (!authenticated) ws.close(4401, 'Authentication timeout').
TimerFire(i) ==
    /\ i \in 1..Len(conns)
    /\ conns[i].authTimeout = "armed"
    /\ conns' = [conns EXCEPT ![i] =
                   LET c == [conns[i] EXCEPT !.authTimeout = "fired"]
                   IN  IF ~c.authenticated THEN WsClose(c, CloseAuthTimeout)
                       ELSE c]
    /\ UNCHANGED <<wsAuthToken, clients, lastAttempt>>
    /\ UNCHANGED bridgeVars

\* A handler registered with ws.on('message') would run again for every
\* message.
HandshakeEveryMessage(c, message) == TRUE

\* ws.once('message', ...): the listener runs for the first message only.
HandshakeRuns(c, message) == c.onceMessage

\* A handler that leaves the timer pending.
KeepTimeout(t) == t

\* clearTimeout(authTimeout): a pending timer is cancelled, one that has
\* fired is not changed.
ClearTimeout(t) == IF t = "armed" THEN "cleared" ELSE t

\* A listener whose catch closes with the code of the else branch.
HandshakeOneCode(c, message) ==
    LET data == JSONParse(message)
    IN  IF ~data.ok \/ data.kind = "null" THEN WsClose(c, CloseInvalidToken)
        ELSE IF data.authToken = wsAuthToken
        THEN [c EXCEPT !.authenticated = TRUE,
                       !.authTimeout = ClearTimeout(@)]
        ELSE WsClose(c, CloseInvalidToken)

\* The body of the 'message' listener: try { data = JSON.parse(message);
\* if (data.authToken === this.wsAuthToken) {...} else close 4403 }
\* catch (e) { close 4400 }. Reading authToken of null throws a TypeError,
\* which the catch takes too.
Handshake(c, message) ==
    LET data == JSONParse(message)
    IN  IF ~data.ok \/ data.kind = "null" THEN WsClose(c, CloseBadFormat)
        ELSE IF data.authToken = wsAuthToken
        THEN [c EXCEPT !.authenticated = TRUE,
                       !.authTimeout = ClearTimeout(@)]
        ELSE WsClose(c, CloseInvalidToken)

\* The socket emits 'message': ws keeps emitting the frames it receives
\* while the socket is open or closing.
Message(i, message) ==
    /\ i \in 1..Len(conns)
    /\ conns[i].accepted
    /\ conns[i].readyState \in {"OPEN", "CLOSING"}
    /\ Events < MaxEvents
    /\ conns' = [conns EXCEPT ![i] =
                   LET c == [conns[i] EXCEPT !.msgs = Append(@, message),
                                             !.onceMessage = FALSE]
                   IN  IF HandshakeRuns(conns[i], message)
                       THEN Handshake(c, message)
                       ELSE c]
    /\ UNCHANGED <<wsAuthToken, clients, lastAttempt>>
    /\ UNCHANGED bridgeVars

\* The socket emits 'close' (the peer went away, or the closing handshake
\* ended): ws removes it from wss.clients.
SocketClose(i) ==
    /\ i \in 1..Len(conns)
    /\ conns[i].readyState \in {"OPEN", "CLOSING"}
    /\ conns' = [conns EXCEPT ![i].readyState = "CLOSED"]
    /\ clients' = clients \ {i}
    /\ UNCHANGED <<wsAuthToken, lastAttempt>>
    /\ UNCHANGED bridgeVars

-----------------------------------------------------------------------------
(* Inputs of the gateway.                                                  *)

\* Origin and Host headers of connection attempts: <<origin, host>>.
Attempts ==
    { <<"http://localhost", "localhost:3000">>,
      <<"https://127.0.0.1:3000", "127.0.0.1:3000">>,
      <<"file://", JsUndefined>>,
      <<"http://attacker.example", "localhost:3000">>,
      <<"http://localhost.attacker.example", "localhost:3000">>,
      <<JsUndefined, "localhost:3000">>,
      <<JsUndefined, "127.0.0.1">>,
      <<JsUndefined, "attacker.example">>,
      <<JsUndefined, "localhost.attacker.example">>,
      <<JsUndefined, JsUndefined>>,
      <<"", "localhost">> }

-----------------------------------------------------------------------------
(* Initial states and specifications.                                      *)

\* The bridge as the preload script leaves it: nothing registered, nothing
\* sent.
BridgeInit ==
    /\ listeners = <<>>
    /\ nextId = 0
    /\ handles = {}
    /\ cancelled = {}
    /\ invoked = [id \in 1..MaxCalls |-> 0]
    /\ deliveries = 0
    /\ lastDelivered = NoArg
    /\ backend = <<>>
    /\ lastCall = Call("none", NoArg, "none", <<>>)
    /\ registry = ALLOWED_CHANNELS
    /\ checked = NotChecked

\* The terminal server after start: the token generated, no client yet.
GatewayInit ==
    /\ wsAuthToken = GeneratedToken
    /\ conns = <<>>
    /\ clients = {}
    /\ lastAttempt = [origin |-> JsUndefined, host |-> JsUndefined,
                      occupied |-> FALSE, accepted |-> FALSE]

Init == BridgeInit /\ GatewayInit

\* Every call the renderer can make on window.electronAPI, and the main
\* process settling an invoke.
BridgeNext ==
    \/ \E c \in ChannelInputs : Send(c)
    \/ \E c \in ChannelInputs : Invoke(c)
    \/ \E i \in 1..MaxCalls, r \in {"resolved", "rejected"} : Reply(i, r)
    \/ \E c \in ChannelInputs, cb \in Callbacks : On(c, cb)
    \/ \E c \in ChannelInputs, cb \in Callbacks : Once(c, cb)
    \/ \E h \in 1..MaxCalls : Unsubscribe(h)
    \/ GetVersion
    \/ GetCwd
    \/ GetEnv

SpecBridge == Init /\ [][BridgeNext]_vars

\* Direct calls of isChannelAllowed over the input values.
CheckNext == \E v \in CheckInputs : CheckChannel(v)

SpecCheck == Init /\ [][CheckNext]_vars

\* The subscription side of the bridge: registrations, cancellations and the
\* messages the main process emits to the renderer.
ListenNext ==
    \/ \E c \in ChannelInputs, cb \in Callbacks : On(c, cb)
    \/ \E c \in ChannelInputs, cb \in Callbacks : Once(c, cb)
    \/ \E h \in 1..MaxCalls : Unsubscribe(h)
    \/ \E c \in DeliverChannels : Deliver(c)

SpecListen == Init /\ [][ListenNext]_vars

\* The terminal server: connection attempts, the authentication timer,
\* client messages and socket closes.
GatewayNext ==
    \/ \E a \in Attempts : Connect(a[1], a[2])
    \/ \E i \in 1..MaxEvents : TimerFire(i)
    \/ \E i \in 1..MaxEvents, m \in Messages : Message(i, m)
    \/ \E i \in 1..MaxEvents : SocketClose(i)

SpecGateway == Init /\ [][GatewayNext]_vars

\* Node runs the callback of every timer that has expired and was not
\* cleared.
GatewayFairness == \A i \in 1..MaxEvents : WF_vars(TimerFire(i))

SpecGatewayFair == Init /\ [][GatewayNext]_vars /\ GatewayFairness

-----------------------------------------------------------------------------
(* Properties of the bridge.                                               *)

\* The four operations that take a channel name from the renderer.
ChannelOps == { "send", "invoke", "on", "once" }

\* C1: a send, invoke, on or once call whose channel name is not one of the
\* 17 registered names fails (it throws, or for invoke rejects), and the
\* step that makes the call leaves the messages received by the main process
\* and the registered listeners exactly as they were, whatever calls came
\* before it.
C1_UnregisteredCallFailsClosed ==
    [][ (/\ lastCall' # lastCall
         /\ lastCall'.op \in ChannelOps
         /\ lastCall'.channel \notin ALLOWED_CHANNELS)
        => /\ lastCall'.outcome \in {"threw", "rejected"}
           /\ backend' = backend
           /\ listeners' = listeners
           /\ nextId' = nextId
           /\ handles' = handles ]_vars

\* An on call with the inherited name constructor has thrown, after a send
\* and a registration on registered channels went through.
C1_Witness ==
    /\ lastCall.op = "on"
    /\ lastCall.channel = "constructor"
    /\ lastCall.outcome = "threw"
    /\ Len(backend) = 1
    /\ Len(listeners) = 1

\* C2 as stated: every message the main process receives from the bridge
\* carries a channel name of the registry.
C2_EveryMessageRegistered ==
    \A i \in 1..Len(backend) : backend[i].channel \in ALLOWED_CHANNELS

\* C2, amended: every message the main process receives from the bridge
\* carries a channel name of the registry, except the synchronous message of
\* getVersion, which goes out on the fixed channel app:get-version without
\* a registry check.
C2_MessageRegisteredOrVersion ==
    \A i \in 1..Len(backend) :
        \/ backend[i].channel \in ALLOWED_CHANNELS
        \/ /\ backend[i].channel = "app:get-version"
           /\ backend[i].method = "sendSync"

\* The main process has received the version query of getVersion and a
\* message of send on a registered channel.
C2_Witness ==
    /\ \E i \in 1..Len(backend) : backend[i].method = "sendSync"
    /\ \E i \in 1..Len(backend) :
          backend[i].method = "send" /\ backend[i].channel = "terminal:data"

\* C9: the first invocation of the handle that on returned removes the
\* listener of that on call and leaves every other registration in place
\* and in order; a cancelled registration is never called again; and each
\* message the main process emits calls every listener then registered on
\* its channel.
C9_UnsubscribeRemovesExactlyOwn ==
    [][ /\ \A h \in 1..MaxCalls :
              /\ (h \in handles /\ h \notin cancelled /\ h \in cancelled')
                 => listeners' = SelectSeq(listeners, LAMBDA l : l.id # h)
              /\ h \in cancelled => invoked'[h] = invoked[h]
        /\ deliveries' # deliveries
           => \A i \in 1..Len(listeners) :
                 listeners[i].channel = lastDelivered'
                 => invoked'[listeners[i].id] = invoked[listeners[i].id] + 1
      ]_vars

\* Two registrations received a first message; one was then cancelled and
\* received nothing of the second message, which the other did receive.
C9_Witness ==
    \E h \in cancelled :
        /\ invoked[h] = 1
        /\ \E i \in 1..Len(listeners) :
              /\ listeners[i].id # h
              /\ ~listeners[i].once
              /\ invoked[listeners[i].id] = 2

\* The ids of the registrations made with once: on returns a handle for
\* each of its registrations, once for none.
OnceIds == (1..nextId) \ handles

\* C10: the callback of a once registration runs for the first message
\* emitted on its channel after the registration, and in no other step: not
\* for a later message on that channel, nor for a message on another one.
C10_OnceRunsForFirstOnly ==
    [][ \A id \in OnceIds :
           LET here == { i \in 1..Len(listeners) : listeners[i].id = id }
               first == /\ deliveries' # deliveries
                        /\ \E i \in here : listeners[i].channel = lastDelivered'
           IN  /\ first => (invoked[id] = 0 /\ invoked'[id] = 1)
               /\ ~first => invoked'[id] = invoked[id]
               /\ here = {} => invoked[id] = 1
      ]_vars

\* Two messages went out on one channel: a listener registered with on got
\* both, and a once registration made before it got only one.
C10_Witness ==
    \E i \in 1..Len(listeners) :
        /\ ~listeners[i].once
        /\ invoked[listeners[i].id] = 2
        /\ \E id \in OnceIds : id < listeners[i].id /\ invoked[id] = 1

\* C11: in every reachable state the own keys of ALLOWED_CHANNELS are the
\* 17 names of the literal: no send, invoke, on, once, unsubscribe,
\* getVersion, getCwd or getEnv call, accepted or rejected, adds or removes
\* one.
C11_RegistryNeverChanges == registry = ALLOWED_CHANNELS

\* A registration was cancelled, getVersion was called, and a send on an
\* unregistered name was rejected after them; the registry is as it started.
C11_Witness ==
    /\ cancelled # {}
    /\ \E i \in 1..Len(backend) : backend[i].method = "sendSync"
    /\ lastCall.op = "send"
    /\ lastCall.outcome = "threw"
    /\ registry = ALLOWED_CHANNELS

\* The console.error records among what a call did.
Diagnostics(call) == SelectSeq(call.diag, LAMBDA e : e.kind = "console.error")

\* C14: every step that is a send, invoke, on or once call ending in a
\* failure has written exactly one console.error record, which names the
\* channel of the call and comes before the throw that ends the call; every
\* step that is a call ending otherwise has written none.
C14_OneDiagnosticPerRejection ==
    [][ lastCall' # lastCall
        => IF lastCall'.outcome \in {"threw", "rejected"}
           THEN /\ lastCall'.op \in ChannelOps
                /\ Len(Diagnostics(lastCall')) = 1
                /\ Diagnostics(lastCall')[1].channel = lastCall'.channel
                /\ lastCall'.diag[1].kind = "console.error"
                /\ lastCall'.diag[Len(lastCall'.diag)].kind = "throw"
           ELSE Diagnostics(lastCall') = <<>> ]_vars

\* An invoke on an unregistered name was rejected after its console.error
\* record was written, and a send on a registered name had gone through.
C14_Witness ==
    /\ lastCall.op = "invoke"
    /\ lastCall.outcome = "rejected"
    /\ lastCall.channel = "terminal:evil"
    /\ lastCall.diag = << Effect("console.error", "terminal:evil"),
                          Effect("throw", "terminal:evil") >>
    /\ \E i \in 1..Len(backend) : backend[i].method = "send"

\* What the caller observes of a denial: how the call failed and what it
\* did before failing, with the name it passed left out.
Denial(call) ==
    [outcome |-> call.outcome,
     steps |-> [k \in 1..Len(call.diag) |-> call.diag[k].kind]]

\* The denial of each operation: invoke returns a rejected promise, the
\* others throw.
DenialOf(op) ==
    [outcome |-> IF op = "invoke" THEN "rejected" ELSE "threw",
     steps |-> << "console.error", "throw" >>]

\* C15: in every state isChannelAllowed gives any two names outside the
\* registry the same verdict, and every step that is a send, invoke, on or
\* once call with a name outside the registry ends in the one denial of
\* that operation, whatever the name, and leaves the bridge state as it
\* was: two such names given to the same operation in the same state are
\* not told apart.
C15_DenialIndependentOfName ==
    [][ /\ \A c1 \in ChannelInputs \ ALLOWED_CHANNELS,
              c2 \in ChannelInputs \ ALLOWED_CHANNELS :
              isChannelAllowed(c1) = isChannelAllowed(c2)
        /\ (/\ lastCall' # lastCall
            /\ lastCall'.op \in ChannelOps
            /\ lastCall'.channel \notin ALLOWED_CHANNELS)
           => /\ Denial(lastCall') = DenialOf(lastCall'.op)
              /\ <<listeners, nextId, handles, cancelled, invoked, deliveries,
                    lastDelivered, backend, registry>>'
                 = <<listeners, nextId, handles, cancelled, invoked, deliveries,
                     lastDelivered, backend, registry>> ]_vars

\* An invoke on app:get-version, a channel the main process serves and has
\* received a message on, was denied.
C15_Witness ==
    /\ lastCall.op = "invoke"
    /\ lastCall.channel = "app:get-version"
    /\ Denial(lastCall) = DenialOf("invoke")
    /\ \E i \in 1..Len(backend) : backend[i].channel = "app:get-version"

\* C21: a step that is an invoke call on a registered name appends exactly
\* one request on that name to what the main process received and returns
\* a pending promise; one on an unregistered name returns a rejected
\* promise (it does not throw to the caller) and appends nothing; no step
\* appends more than one message; and a request is settled at most once,
\* from pending to resolved or rejected, and is never changed afterwards.
C21_InvokeOneRequestOneReply ==
    [][ /\ (lastCall' # lastCall /\ lastCall'.op = "invoke")
           => IF lastCall'.channel \in ALLOWED_CHANNELS
              THEN /\ lastCall'.outcome = "pending"
                   /\ backend' = Append(backend,
                                        Msg(lastCall'.channel, "invoke", "pending"))
              ELSE /\ lastCall'.outcome = "rejected"
                   /\ backend' = backend
        /\ Len(backend') \in {Len(backend), Len(backend) + 1}
        /\ \A i \in 1..Len(backend) :
              \/ backend'[i] = backend[i]
              \/ /\ backend[i].method = "invoke"
                 /\ backend[i].reply = "pending"
                 /\ \E r \in {"resolved", "rejected"} :
                       backend'[i] = [backend[i] EXCEPT !.reply = r] ]_vars

\* Two requests were forwarded, the latest by an invoke on system:cwd; the
\* first was answered with a value and the latest with a failure.
C21_Witness ==
    /\ lastCall = Call("invoke", "system:cwd", "pending", <<>>)
    /\ Len(backend) = 2
    /\ backend[1].reply = "resolved"
    /\ backend[1].method = "invoke"
    /\ backend[2] = Msg("system:cwd", "invoke", "rejected")

-----------------------------------------------------------------------------
(* Properties of the gateway.                                              *)

\* The connections that are open.
OpenConns == { i \in 1..Len(conns) : conns[i].readyState = "OPEN" }

\* C3: an attempt made while an accepted connection is open is rejected,
\* whatever origin and host it carries, and so at most one connection is
\* open at any instant.
C3_SecondAttemptRejected ==
    /\ lastAttempt.occupied => ~lastAttempt.accepted
    /\ Cardinality(OpenConns) <= 1

\* The origins of the loopback host over HTTP or HTTPS, without a port or
\* with the port of the listener.
LoopbackOrigins ==
    { scheme \o host \o port :
        scheme \in {"http://", "https://"},
        host \in {"localhost", "127.0.0.1"},
        port \in {"", ":" \o PortText} }

\* C4: an attempt that presents an origin is accepted only if the origin is
\* a loopback HTTP or HTTPS origin or begins with file:// or app://.
C4_OnlyLoopbackOriginAccepted ==
    (lastAttempt.accepted /\ Truthy(lastAttempt.origin))
    => \/ lastAttempt.origin \in LoopbackOrigins
       \/ startsWith(lastAttempt.origin, "file://")
       \/ startsWith(lastAttempt.origin, "app://")

Digits == { "0", "1", "2", "3", "4", "5", "6", "7", "8", "9" }

\* A Host value that names the loopback host: localhost or 127.0.0.1, alone
\* or followed by a colon and a decimal port.
IsLoopbackHost(host) ==
    \E name \in {"localhost", "127.0.0.1"} :
        \/ host = name
        \/ /\ Len(host) > Len(name) + 1
           /\ SubSeq(host, 1, Len(name) + 1) = name \o ":"
           /\ \A k \in (Len(name) + 2)..Len(host) : SubSeq(host, k, k) \in Digits

\* C5: an attempt that presents no origin is accepted only if its Host
\* names the loopback host.
C5_NoOriginNeedsLoopbackHost ==
    (lastAttempt.accepted /\ ~Truthy(lastAttempt.origin))
    => IsLoopbackHost(lastAttempt.host)

\* C6: when the authentication timer of an open connection fires before any
\* message was delivered on it, the connection is closed with code 4401;
\* and every accepted connection is eventually authenticated or no longer
\* open.
C6_SilentConnectionTimesOut ==
    /\ [][ \A i \in 1..Len(conns) :
              (/\ conns[i].authTimeout = "armed"
               /\ conns'[i].authTimeout = "fired"
               /\ conns[i].msgs = <<>>
               /\ conns[i].readyState = "OPEN")
              => /\ conns'[i].readyState = "CLOSING"
                 /\ conns'[i].closeCode = CloseAuthTimeout ]_vars
    /\ \A i \in 1..MaxEvents :
          (i <= Len(conns) /\ conns[i].accepted)
          ~> (/\ i <= Len(conns)
              /\ conns[i].authenticated \/ conns[i].readyState # "OPEN")

\* A connection on which no message arrived was closed by its timer with
\* code 4401.
C6_Witness ==
    \E i \in 1..Len(conns) :
        /\ conns[i].msgs = <<>>
        /\ conns[i].authTimeout = "fired"
        /\ conns[i].closeCode = CloseAuthTimeout

\* C7: a connection is authenticated only if the first message delivered
\* on it parsed and carried the token generated at start; a first message
\* that fails to parse or carries another token leaves it unauthenticated
\* whatever follows.
C7_AuthenticatedOnlyByFirstToken ==
    \A i \in 1..Len(conns) :
        conns[i].authenticated
        => /\ Len(conns[i].msgs) >= 1
           /\ JSONParse(conns[i].msgs[1]).ok
           /\ JSONParse(conns[i].msgs[1]).authToken = wsAuthToken

\* A connection received a wrong token first and the right token after it,
\* and is not authenticated.
C7_Witness ==
    \E i \in 1..Len(conns) :
        /\ Len(conns[i].msgs) = 2
        /\ conns[i].msgs[1] = TokenMessage("51ab")
        /\ conns[i].msgs[2] = TokenMessage(wsAuthToken)
        /\ ~conns[i].authenticated

\* C8: when the first message of a connection parses and carries a token
\* other than the shared one, the handler closes with code 4403, and when it
\* fails to parse, with code 4400: that close is issued in the same step and
\* is the close code of a connection that was open; and 4400, 4401, 4403
\* are pairwise distinct.
C8_HandshakeCloseCodes ==
    [][ /\ CloseInvalidToken # CloseBadFormat
        /\ CloseInvalidToken # CloseAuthTimeout
        /\ CloseBadFormat # CloseAuthTimeout
        /\ \A i \in 1..Len(conns) :
              (conns[i].msgs = <<>> /\ Len(conns'[i].msgs) = 1)
              => LET data == JSONParse(conns'[i].msgs[1])
                     code == IF ~data.ok THEN CloseBadFormat
                             ELSE IF data.authToken \in Tokens \ {wsAuthToken}
                             THEN CloseInvalidToken
                             ELSE 0
                 IN  code # 0
                     => /\ conns'[i].closeCalls = Append(conns[i].closeCalls, code)
                        /\ conns[i].readyState = "OPEN"
                           => /\ conns'[i].closeCode = code
                              /\ conns'[i].readyState = "CLOSING" ]_vars

\* A connection whose first message carried a wrong token was closed with
\* code 4403.
C8_Witness ==
    \E i \in 1..Len(conns) :
        /\ conns[i].msgs = << TokenMessage("51ab") >>
        /\ conns[i].closeCalls = << CloseInvalidToken >>
        /\ conns[i].closeCode = CloseInvalidToken
        /\ conns[i].readyState = "CLOSING"

\* An origin the accept policy is meant to let in, and a Host it is meant
\* to let in when no origin is presented.
AcceptableAttempt(origin, host) ==
    IF Truthy(origin)
    THEN \/ origin \in LoopbackOrigins
         \/ startsWith(origin, "file://")
         \/ startsWith(origin, "app://")
    ELSE Truthy(host) /\ IsLoopbackHost(host)

\* C12: an attempt made when a connection had been accepted earlier and the
\* server tracks no socket any more (every accepted connection has closed)
\* is accepted in the step that makes it, if its origin is a loopback,
\* file:// or app:// origin or, without an origin, its Host names the
\* loopback host: it is not turned away as a second connection.
C12_SlotFreedAfterClose ==
    [][ (/\ Len(conns') = Len(conns) + 1
         /\ clients = {}
         /\ \E i \in 1..Len(conns) : conns[i].accepted
         /\ AcceptableAttempt(lastAttempt'.origin, lastAttempt'.host))
        => /\ lastAttempt'.accepted
           /\ conns'[Len(conns')] = Connected
           /\ clients' = {Len(conns')} ]_vars

\* The first connection was accepted and has closed, and an attempt without
\* origin from the loopback host made after that is accepted and open.
C12_Witness ==
    /\ Len(conns) = 2
    /\ conns[1].accepted
    /\ conns[1].readyState = "CLOSED"
    /\ lastAttempt.origin = JsUndefined
    /\ lastAttempt.host = "localhost:3000"
    /\ conns[2].accepted
    /\ clients = {2}

\* C13: an attempt that verifyClient rejected has no socket the server
\* tracks and never gets one: no timer is started for it, no listener is
\* registered, no message is delivered or compared with the token, no close
\* is issued, and it is never authenticated; and the verdict of the latest
\* verifyClient call is what decided the latest attempt.
C13_RejectedNeverReachesHandshake ==
    /\ \A i \in 1..Len(conns) :
          ~conns[i].accepted => (conns[i] = Refused /\ i \notin clients)
    /\ Len(conns) >= 1 => conns[Len(conns)].accepted = lastAttempt.accepted

\* An attempt was rejected, and its socket is untouched after a later
\* attempt was accepted and that connection authenticated.
C13_Witness ==
    \E i \in 1..Len(conns) :
        /\ conns[i] = Refused
        /\ \E j \in (i + 1)..Len(conns) :
              conns[j].authenticated /\ lastAttempt.accepted

\* C16: once a connection is authenticated, no later step issues a close on
\* it and its timer, which the handler cancelled if it was pending, does
\* not fire: under every interleaving of messages, timer expiries and
\* socket closes.
C16_TimerSparesAuthenticated ==
    [][ \A i \in 1..Len(conns) :
           conns[i].authenticated
           => /\ conns'[i].closeCalls = conns[i].closeCalls
              /\ conns'[i].authTimeout = conns[i].authTimeout
              /\ conns[i].authTimeout # "armed" ]_vars

\* A connection authenticated with its first message, its timer cancelled,
\* received a second message and no close was issued on it.
C16_Witness ==
    \E i \in 1..Len(conns) :
        /\ conns[i].authenticated
        /\ conns[i].authTimeout = "cleared"
        /\ Len(conns[i].msgs) = 2
        /\ conns[i].closeCalls = <<>>
        /\ conns[i].readyState = "OPEN"

\* C17: a connection that has left the state of awaiting authentication
\* (it is authenticated, or closing, or closed) has no pending timer, and
\* at most one close was issued on it.
C17_TimerCancelledOnEveryExit ==
    \A i \in 1..Len(conns) :
        /\ (conns[i].accepted
            /\ (conns[i].authenticated \/ conns[i].readyState # "OPEN"))
           => conns[i].authTimeout # "armed"
        /\ Len(conns[i].closeCalls) <= 1

\* C18: a connection on which a close was issued (for timeout, invalid
\* token or bad format) is not authenticated, in every reachable state.
C18_ClosedNeverAuthenticated ==
    \A i \in 1..Len(conns) :
        conns[i].closeCalls # <<>> => ~conns[i].authenticated

\* C19: no two attempts are both accepted with nothing having happened on
\* either connection since: of two attempts made one right after the
\* other, at most one is accepted.
C19_AtMostOneOfTwoAccepted ==
    \A i \in 1..Len(conns), j \in 1..Len(conns) :
        (i < j /\ conns[i] = Connected) => conns[j] # Connected

====
